---- MODULE Spec2Model ----
(***************************************************************************)
(* Model of the pipeline execution engine of prose:                        *)
(*   Sequence.run / Sequence.terminate      (src/prose/sequence.py)        *)
(*   MPSequence.run / _run_all              (src/prose/sequence.py)        *)
(*   Unit.run                               (src/prose/pipeline/base.py)   *)
(* Positions (enumerate indices) are 0-based as in the source.             *)
(***************************************************************************)
EXTENDS Integers, Sequences, FiniteSets, TLC

\* ------------------------------------------------------------------ bounds
MaxImages == 2
MaxBlocks == 2
MaxDataBlocks == 1
MaxSupplied == 3
MaxCopies == 1
MaxWrites == 3

\* ------------------------------------------------------------- vocabulary
\* Python's None for an integer-valued attribute
None == -1
\* the image Unit keeps in self.stack_image
StackImage == -2

\* type(block).__name__ of the blocks a chain is built from
PlainClasses == {"A", "B"}
\* the classes deriving from DataBlock
DataClasses == {"D"}

\* what an invocation of a block's run does: returns, returns after setting
\* image.discard = True, or raises
Effects == {"ok", "discard", "raise"}

VARIABLES
    kind,       \* class of the object the caller runs: Sequence, MPSequence, Unit
    images,     \* the images argument of the caller's run(), as passed
    blocks,     \* blocks[o]: self.blocks of Sequence object o (main: self, data: self.data)
    has_data,   \* MPSequence._has_data
    has_stack,  \* Unit: whether __init__ found a stack image (self.stack_image is set)
    st,         \* st[o]: bookkeeping and frame of run() of Sequence object o
    img,        \* img[j]: the image made from input j (j = position in the caller's list)
    pool,       \* the worker pool of MPSequence.run: alive flag and one task per input
    completed,  \* inputs in the order in which their workers returned
    trace,      \* calls made by the calling process, in order
    wlog,       \* wlog[j]: calls made by the worker that handles input j, in order
    outcome,    \* how the caller's run() ended
    supplied,   \* the blocks argument the Sequence was constructed with
    ret,        \* what as_dicts, from_dicts and citations returned to the caller
    heap,       \* heap[<<k, path>>]: the dict or buffer object made for Image k at path
    inst,       \* inst[k]: the __dict__ of Image instance k (empty: not constructed)
    got,        \* what the call on an Image returned or raised, until the caller takes it
    writes      \* number of writing calls made on the Images

vars == <<kind, images, blocks, has_data, has_stack, st, img, pool, completed, trace,
          wlog, outcome, supplied, ret, heap, inst, got, writes>>

\* the state a call of run() reads and writes
pipeline == <<kind, images, blocks, has_data, has_stack, st, img, pool, completed, trace,
              wlog, outcome>>

\* the state of the Image objects the caller handles outside run()
imagevars == <<heap, inst, got, writes>>

\* the state run() leaves alone
others == <<supplied, ret, imagevars>>

Objects == {"main", "data"}

\* ------------------------------------------------------------ trace events
Ev(op, obj, blk, im, name, idxs) ==
    [op |-> op, obj |-> obj, blk |-> blk, img |-> im, name |-> name, idxs |-> idxs]

\* -------------------------------------------------------------- helpers
Range(s) == {s[x] : x \in DOMAIN s}

\* all sequences over S of length lo..hi
SeqsOf(S, lo, hi) == UNION {[1..n -> S] : n \in lo..hi}

\* block.name of a block that was given no name
NoName == "None"

\* the classes a named Sequence is built from; Calibration is the block of
\* _blocks/calibration.py
NamedClasses == {"A", "Calibration"}

\* the names given to blocks; two of them look like default names
Names == {NoName, "block0", "block1"}

\* the construction arguments of a block: (args, kwargs), kwargs as its keys
Constructions == {[args |-> <<>>, kwargs |-> <<>>], [args |-> <<1>>, kwargs |-> <<"k">>]}

\* a block object: class, constructor arguments as the block records them,
\* name, stack flag, and its identity (position in the list it was made in)
NewBlock(cls, name, args, kwargs, stack, id) ==
    [cls |-> cls, stack |-> stack, name |-> name, args |-> args, kwargs |-> kwargs,
     id |-> id]

\* Block objects: class and the stack flag given to the constructor
Block(cls, stack) == NewBlock(cls, NoName, <<>>, <<>>, stack, None)

\* a list of freshly made blocks: each is an object of its own
Identified(chain, first) == [x \in DOMAIN chain |-> [chain[x] EXCEPT !.id = first + x - 1]]

\* isinstance(b, DataBlock)
IsDataBlock(b) == b.cls \in DataClasses

\* mutant of PyIndex: a negative index is taken as the first element
PyIndex_Clamped(s, k) == IF k < 0 THEN s[1] ELSE s[k + 1]

\* Python's seq[k] for a 0-based index that may be -1 (last element)
PyIndex(s, k) == IF k < 0 THEN s[Len(s) + 1 + k] ELSE s[k + 1]

\* the discards dict, as the insertion-ordered list of its items
DictHas(d, key) == \E x \in DOMAIN d : d[x].key = key

DictAppend(d, key, v) ==
    IF DictHas(d, key)
    THEN [x \in DOMAIN d |->
            IF d[x].key = key THEN [d[x] EXCEPT !.val = Append(@, v)] ELSE d[x]]
    ELSE Append(d, [key |-> key, val |-> <<v>>])

\* sequence.py 37: "block{}".format(i)
DefaultName(i) == "block" \o ToString(i)

\* sequence.py 37: the key a block at position i of the list is stored under
Key(block, i) == IF block.name # NoName THEN block.name ELSE DefaultName(i)

\* mutant of DictPut: a key that is present is moved to the end of the dict
DictPut_Moved(d, key, v) ==
    Append(SelectSeq(d, LAMBDA item : item.key # key), [key |-> key, val |-> v])

\* d[key] = v for a dict kept as the insertion-ordered list of its items: a key
\* that is present keeps its place and takes the new value
DictPut(d, key, v) ==
    IF DictHas(d, key)
    THEN [x \in DOMAIN d |-> IF d[x].key = key THEN [key |-> key, val |-> v] ELSE d[x]]
    ELSE Append(d, [key |-> key, val |-> v])

\* sequence.py 34-39: blocks_dict after the first n blocks of the list
RECURSIVE BlocksDict(_, _)
BlocksDict(bs, n) ==
    IF n = 0 THEN <<>>
    ELSE DictPut(BlocksDict(bs, n - 1), Key(bs[n], n - 1), bs[n])

\* sequence.py 30-32: the blocks property of a Sequence given the list bs
Registered(bs) ==
    LET d == BlocksDict(bs, Len(bs)) IN [x \in DOMAIN d |-> d[x].val]

\* Block._run(image): the instrumented wrapper, which invokes run(image) once;
\* the event keeps the index the block finds on the image (None while unset)
Block_run(o, b, j, eff) == Ev("run", o, b, j, eff, <<img[j].i>>)

\* ------------------------------------------------------------------ Image
\* Image instances: 0 is the image the caller made, k > 0 the k-th copy
ImageIds == 0..MaxCopies

\* the places of the dict, buffer and catalogue objects an Image can own
Paths == {"data", "metadata", "computed", "catalogs", "_sources",
          "computed.l", "computed.catalogs", "computed._sources"}

Cells == ImageIds \X Paths

\* values: a scalar (written as a string), or a reference to an object of the heap
Scalar(w) == [ref |-> FALSE, own |-> None, at |-> w]
Ref(k, path) == [ref |-> TRUE, own |-> k, at |-> path]
NoneV == Scalar("None")

\* the values the callers write
Scalars == {Scalar("a"), Scalar("b")}

\* the object a reference points to
Cell(v) == <<v.own, v.at>>

\* a dict as the set of its (key, value) items
Has(d, k) == \E p \in d : p[1] = k
At(d, k) == (CHOOSE p \in d : p[1] = k)[2]
Put(d, k, v) == {p \in d : p[1] # k} \cup {<<k, v>>}
Del(d, k) == {p \in d : p[1] # k}

\* the place of the value a dict at path holds under key
NestedPath(path, key) == path \o "." \o key

\* mutant of DeepCopy: the object is shared, not copied
DeepCopy_Alias(h, v, k, path) == [val |-> v, heap |-> h]

\* deepcopy(v), the copy being made for Image k at path: a scalar is returned as
\* it is; of a dict a new dict is made, with new objects for the values that
\* are objects
DeepCopy(h, v, k, path) ==
    IF ~v.ref THEN [val |-> v, heap |-> h]
    ELSE LET old == h[Cell(v)]
             inner == {p \in old : p[2].ref}
         IN  [val |-> Ref(k, path),
              heap |-> [c \in DOMAIN h |->
                 IF c = <<k, path>>
                 THEN {<<p[1], IF p[2].ref THEN Ref(k, NestedPath(path, p[1])) ELSE p[2]>> :
                          p \in old}
                 ELSE IF \E p \in inner : c = <<k, NestedPath(path, p[1])>>
                 THEN h[Cell((CHOOSE p \in inner : c = <<k, NestedPath(path, p[1])>>)[2])]
                 ELSE h[c]]]

\* copy(v): a new object with the items of the old one
ShallowCopy(h, v, k, path) ==
    IF ~v.ref THEN [val |-> v, heap |-> h]
    ELSE [val |-> Ref(k, path), heap |-> [h EXCEPT ![<<k, path>>] = h[Cell(v)]]]

\* image.py 24-32: __dict__ after Image(data, metadata, computed); every
\* assignment of __init__ is made before "computed" is in __dict__, so each
\* lands in __dict__ (378-385)
NewImage(k, data, metadata, computed) ==
    {<<"data", data>>, <<"metadata", metadata>>, <<"catalogs", Ref(k, "catalogs")>>,
     <<"_sources", Ref(k, "_sources")>>, <<"discard", Scalar("False")>>,
     <<"origin", Scalar("(0, 0)")>>, <<"computed", computed>>}

\* the instance fields __init__ declares
Declared == {"data", "metadata", "catalogs", "_sources", "discard", "origin", "computed"}

\* the computed store of the instance whose __dict__ is d
Computed(h, d) == h[Cell(At(d, "computed"))]

\* image.py 387-394: __getattr__, called when the normal lookup has failed
GetAttrFallback(h, d, name) ==
    IF ~Has(d, "computed") THEN [raised |-> "AttributeError", val |-> NoneV]
    ELSE IF Has(Computed(h, d), name)
    THEN [raised |-> "", val |-> At(Computed(h, d), name)]
    ELSE [raised |-> "AttributeError", val |-> NoneV]

\* reading instance.name: __dict__ first, then __getattr__
GetAttr(h, d, name) ==
    IF Has(d, name) THEN [raised |-> "", val |-> At(d, name)]
    ELSE GetAttrFallback(h, d, name)

\* hasattr(instance, name)
HasAttr(h, d, name) == GetAttr(h, d, name).raised = ""

\* image.py 378-385: __setattr__
SetAttr(h, d, name, v) ==
    IF HasAttr(h, d, name)
    THEN [dict |-> Put(d, name, v), heap |-> h]
    ELSE IF Has(d, "computed")
    THEN [dict |-> d,
          heap |-> [h EXCEPT ![Cell(At(d, "computed"))] = Put(@, name, v)]]
    ELSE [dict |-> Put(d, name, v), heap |-> h]

\* no result of a call is held by the caller
NoCall == [op |-> "", image |-> None, name |-> "", raised |-> "", val |-> NoneV]

NoImagesMade ==
    /\ heap = [c \in Cells |-> {}]
    /\ inst = [k \in ImageIds |-> {}]
    /\ got = NoCall
    /\ writes = 0

Made(k) == inst[k] # {}

\* ------------------------------------------------------------------- Init
\* nothing was asked of the Sequence yet
NoReturns ==
    [as_dicts |-> [done |-> FALSE, val |-> <<>>],
     from_dicts |-> [done |-> FALSE, val |-> <<>>],
     citations |-> [done |-> FALSE, none |-> FALSE, val |-> <<>>]]

FreshFrame ==
    [pc |-> "idle", shape |-> "list", files |-> <<>>, i |-> 0, b |-> 0,
     n_processed_images |-> None, discards |-> <<>>,
     discard_message |-> FALSE, last_block |-> "",
     show_progress |-> TRUE, live_discard |-> FALSE, terminate |-> TRUE]

Chains(classes, stacks, hi) ==
    SeqsOf({Block(c, s) : c \in classes, s \in stacks}, 0, hi)

Init ==
    /\ kind \in {"Sequence", "MPSequence", "Unit"}
    /\ \E main \in Chains(PlainClasses \cup DataClasses, BOOLEAN, MaxBlocks),
          data \in Chains(DataClasses, {FALSE}, MaxDataBlocks),
          hd \in BOOLEAN :
          /\ kind = "Sequence" =>
                /\ \A x \in DOMAIN main : main[x].cls \in PlainClasses /\ ~main[x].stack
                /\ ~hd
          /\ kind = "MPSequence" =>
                /\ \A x \in DOMAIN main : main[x].cls \in {"A"} \cup DataClasses
                                          /\ ~main[x].stack
          /\ kind = "Unit" =>
                /\ \A x \in DOMAIN main : main[x].cls = "A"
                /\ ~hd
          /\ ~hd => data = <<>>
          /\ supplied = Identified(main, 0)
          /\ blocks = [main |-> IF kind = "Unit" THEN supplied ELSE Registered(supplied),
                       data |-> Registered(Identified(data, 0))]
          /\ has_data = hd
    /\ has_stack \in BOOLEAN
    /\ kind # "Unit" => ~has_stack
    /\ images = [shape |-> "unset", items |-> <<>>]
    /\ st = [o \in Objects |-> FreshFrame]
    /\ img = <<>>
    /\ pool = [alive |-> FALSE, task |-> <<>>]
    /\ completed = <<>>
    /\ trace = <<>>
    /\ wlog = <<>>
    /\ outcome = "none"
    /\ ret = NoReturns
    /\ NoImagesMade

\* ------------------------------------------------- the caller's arguments
\* an input is a path, an Image, or an Image whose discard flag is already set
ItemKinds == {"path", "image", "discarded"}

\* the images argument: None, an empty tuple, or a list of up to MaxImages items
Arguments ==
    {[shape |-> "none", items |-> <<>>], [shape |-> "tuple", items |-> <<>>]}
    \cup {[shape |-> "list", items |-> it] : it \in SeqsOf(ItemKinds, 0, MaxImages)}

\* the image objects behind the items (a path has none until the loader is called)
ImagesOf(items) ==
    [j \in 0..(Len(items) - 1) |->
        [loaded |-> items[j + 1] # "path",
         discard |-> items[j + 1] = "discarded",
         i |-> None]]

\* files_or_images as enumerate sees it: the positions of the inputs
Positions(items) == [x \in 1..Len(items) |-> x - 1]

\* ------------------------------------------------------------ Sequence.run
\* sequence.py 43: a single str, Path or Image is wrapped into a list
Wrapped(shape) == IF shape = "single" THEN "list" ELSE shape

\* mutant of NoImages: every empty collection is rejected, whatever its type
NoImages_AnyEmpty(shape, files) == Len(files) = 0

\* mutant of NoImages: only the empty list is rejected, None is let through
NoImages_ListOnly(shape, files) == shape \in {"list", "single"} /\ Len(files) = 0

\* sequence.py 57-61: the test that raises ValueError("No images to process")
NoImages(shape, files) ==
    \/ Wrapped(shape) = "list" /\ Len(files) = 0
    \/ Wrapped(shape) = "none"

\* sequence.py 41-63: entry of Sequence.run up to the loop
RunFrame(f, shape, files, sp, ld, term) ==
    LET g == [f EXCEPT !.shape = Wrapped(shape), !.files = files, !.discards = <<>>,
                       !.show_progress = sp, !.live_discard = ld, !.terminate = term,
                       !.i = 0, !.b = 0, !.discard_message = FALSE, !.last_block = ""]
    IN  IF NoImages(shape, files)
        THEN [g EXCEPT !.pc = "raised"]
        ELSE [g EXCEPT !.n_processed_images = 0, !.pc = "loop"]

\* the caller invokes Sequence(blocks).run(images, ...)
SeqRun ==
    /\ kind = "Sequence"
    /\ st.main.pc = "idle"
    /\ \E arg \in Arguments, sp \in BOOLEAN, ld \in BOOLEAN, term \in BOOLEAN :
          LET f == RunFrame(st.main, arg.shape, Positions(arg.items), sp, ld, term)
          IN  /\ st' = [st EXCEPT !.main = f]
              /\ images' = arg
              /\ img' = ImagesOf(arg.items)
              /\ outcome' = IF f.pc = "raised" THEN "ValueError" ELSE outcome
    /\ UNCHANGED <<others, kind, blocks, has_data, has_stack, pool, completed, trace, wlog>>

\* mutant of SeqDispatch: the index is not assigned
SeqDispatch_Unindexed(o) ==
    /\ st[o].pc = "loop"
    /\ st[o].i < Len(st[o].files)
    /\ LET j == st[o].files[st[o].i + 1]
       IN  /\ trace' = IF img[j].loaded THEN trace
                       ELSE Append(trace, Ev("load", o, None, j, "", <<>>))
           /\ img' = [img EXCEPT ![j].loaded = TRUE]
    /\ st' = [st EXCEPT ![o].pc = "block", ![o].b = 0,
                        ![o].discard_message = FALSE, ![o].last_block = ""]
    /\ UNCHANGED <<others, kind, images, blocks, has_data, has_stack, pool, completed, wlog, outcome>>

\* sequence.py 66-75: the next input is taken, loaded if it is a path, and indexed
SeqDispatch(o) ==
    /\ st[o].pc = "loop"
    /\ st[o].i < Len(st[o].files)
    /\ LET j == st[o].files[st[o].i + 1]
       IN  /\ trace' = IF img[j].loaded THEN trace
                       ELSE Append(trace, Ev("load", o, None, j, "", <<>>))
           /\ img' = [img EXCEPT ![j].loaded = TRUE, ![j].i = st[o].i]
    /\ st' = [st EXCEPT ![o].pc = "block", ![o].b = 0,
                        ![o].discard_message = FALSE, ![o].last_block = ""]
    /\ UNCHANGED <<others, kind, images, blocks, has_data, has_stack, pool, completed, wlog, outcome>>

\* mutant of SeqMayRun: one flag is kept for the whole run, so that a discard
\* stops the blocks on the images that follow as well
SeqMayRun_AnyDiscard(image) == ~image.discard /\ \A j \in DOMAIN img : ~img[j].discard

\* mutant of SeqMayRun: the discard flag is not consulted
SeqMayRun_Always(image) == TRUE

\* sequence.py 79: the test that lets a block run on the image
SeqMayRun(image) == ~image.discard

\* mutant of Propagates: the call is wrapped in a try block that swallows
\* what the block raises
Propagates_Caught(eff) == FALSE

\* sequence.py 80: block._run(image) is called outside any try block, so what
\* the block raises leaves the loops and run()
Propagates(eff) == eff = "raise"

\* sequence.py 77-93: one iteration of the loop over the blocks
SeqBlock(o) ==
    /\ st[o].pc = "block"
    /\ st[o].b < Len(blocks[o])
    /\ LET f == st[o]
           j == f.files[f.i + 1]
       IN  IF SeqMayRun(img[j])
           THEN \E eff \in Effects :
                  /\ trace' = Append(trace, Block_run(o, f.b, j, eff))
                  /\ img' = [img EXCEPT ![j].discard = (@ \/ eff = "discard")]
                  /\ IF Propagates(eff)
                     THEN /\ st' = [q \in Objects |->
                                      IF q = o \/ q = "main"
                                      THEN [st[q] EXCEPT !.pc = "raised"] ELSE st[q]]
                          /\ outcome' = "BlockError"
                          /\ pool' = [pool EXCEPT !.alive = FALSE]
                     ELSE /\ st' = [st EXCEPT ![o].b = f.b + 1]
                          /\ UNCHANGED <<outcome, pool>>
           ELSE /\ IF ~f.discard_message
                   THEN LET last_block == PyIndex(blocks[o], f.b - 1).cls
                        IN  /\ st' = [st EXCEPT
                                   ![o].b = f.b + 1,
                                   ![o].last_block = last_block,
                                   ![o].discard_message = TRUE,
                                   ![o].discards =
                                       IF f.live_discard THEN @
                                       ELSE DictAppend(@, last_block, f.i)]
                            /\ trace' = IF f.live_discard
                                        THEN Append(trace,
                                               Ev("warning", o, None, j, last_block, <<f.i>>))
                                        ELSE trace
                   ELSE /\ st' = [st EXCEPT ![o].b = f.b + 1]
                        /\ UNCHANGED trace
                /\ UNCHANGED <<img, outcome, pool>>
    /\ UNCHANGED <<others, kind, images, blocks, has_data, has_stack, completed, wlog>>

\* mutant of SeqEndImage: a discarded image is not counted
SeqEndImage_SkipDiscarded(o) ==
    /\ st[o].pc = "block"
    /\ st[o].b = Len(blocks[o])
    /\ st' = [st EXCEPT ![o].pc = "loop", ![o].i = @ + 1,
                        ![o].n_processed_images =
                            IF img[st[o].files[st[o].i + 1]].discard THEN @ ELSE @ + 1]
    /\ UNCHANGED <<others, kind, images, blocks, has_data, has_stack, img, pool, completed, trace,
                   wlog, outcome>>

\* sequence.py 95-96: the image is released and counted
SeqEndImage(o) ==
    /\ st[o].pc = "block"
    /\ st[o].b = Len(blocks[o])
    /\ st' = [st EXCEPT ![o].pc = "loop", ![o].i = @ + 1,
                        ![o].n_processed_images = @ + 1]
    /\ UNCHANGED <<others, kind, images, blocks, has_data, has_stack, img, pool, completed, trace,
                   wlog, outcome>>

\* mutant of TerminateCalls: the chain is walked from its end
TerminateCalls_Reversed(o) ==
    [x \in 1..Len(blocks[o]) |->
        Ev("terminate", o, Len(blocks[o]) - x, None,
           blocks[o][Len(blocks[o]) + 1 - x].cls, <<>>)]

\* sequence.py 106-108: Sequence.terminate, the calls it makes in order
TerminateCalls(o) ==
    [x \in 1..Len(blocks[o]) |-> Ev("terminate", o, x - 1, None, blocks[o][x].cls, <<>>)]

\* sequence.py 99-100: after the last image
SeqTerminate(o) ==
    /\ st[o].pc = "loop"
    /\ st[o].i = Len(st[o].files)
    /\ trace' = IF st[o].terminate THEN trace \o TerminateCalls(o) ELSE trace
    /\ st' = [st EXCEPT ![o].pc = "report"]
    /\ UNCHANGED <<others, kind, images, blocks, has_data, has_stack, img, pool, completed, wlog, outcome>>

\* sequence.py 102-104: one warning per key of discards, in insertion order
SummaryWarnings(o) ==
    [x \in 1..Len(st[o].discards) |->
        Ev("summary", o, None, None, st[o].discards[x].key, st[o].discards[x].val)]

SeqReport(o) ==
    /\ st[o].pc = "report"
    /\ trace' = IF ~st[o].live_discard THEN trace \o SummaryWarnings(o) ELSE trace
    /\ st' = [st EXCEPT ![o].pc = "done"]
    /\ outcome' = IF o = "main" THEN "ok" ELSE outcome
    /\ UNCHANGED <<others, kind, images, blocks, has_data, has_stack, img, pool, completed, wlog>>

\* ---------------------------------------------------------- MPSequence.run
\* mutant of BadBlocks: only the first block of the chain is examined
BadBlocks_FirstOnly == {x \in DOMAIN blocks.main : x = 1 /\ IsDataBlock(blocks.main[x])}

\* sequence.py 174-182: the main-chain blocks check_data_blocks rejects
BadBlocks == {x \in DOMAIN blocks.main : IsDataBlock(blocks.main[x])}

\* sequence.py 191-203, 218-222: what calling progress(iterator, total=n) gives;
\* the function bound when show_progress is false takes one positional argument only
ProgressCall(sp) == IF sp THEN "iterator" ELSE "TypeError"

\* sequence.py 184-211: entry of MPSequence.run up to the creation of the pool
MPRun ==
    /\ kind = "MPSequence"
    /\ st.main.pc = "idle"
    /\ \E arg \in Arguments, sp \in BOOLEAN, term \in BOOLEAN :
          \* live_discard is accepted and never read
          LET g == [st.main EXCEPT !.show_progress = sp, !.terminate = term]
              h == [g EXCEPT !.shape = Wrapped(arg.shape),
                             !.files = Positions(arg.items)]
          IN  \* the inputs of one call are all paths or all images
              /\ \E ik \in {"path", "image"} : \A x \in DOMAIN arg.items : arg.items[x] = ik
              /\ images' = arg
              /\ img' = ImagesOf(arg.items)
              /\ IF BadBlocks # {}
                 THEN /\ st' = [st EXCEPT !.main = [g EXCEPT !.pc = "raised"]]
                      /\ outcome' = "SystemExit"
                 ELSE IF NoImages(arg.shape, Positions(arg.items))
                 THEN /\ st' = [st EXCEPT !.main = [h EXCEPT !.pc = "raised"]]
                      /\ outcome' = "ValueError"
                 ELSE /\ st' = [st EXCEPT !.main =
                                   [h EXCEPT !.n_processed_images = 0, !.pc = "pool"]]
                      /\ UNCHANGED outcome
    /\ UNCHANGED <<others, kind, blocks, has_data, has_stack, pool, completed, trace, wlog>>

\* sequence.py 214-222: the pool is created and pool.imap queues one task per input
MPSubmit ==
    /\ st.main.pc = "pool"
    /\ pool' = [alive |-> TRUE,
                task |-> [j \in DOMAIN img |->
                            [state |-> "queued", b |-> 0, discard_message |-> FALSE]]]
    /\ wlog' = [j \in DOMAIN img |-> <<>>]
    /\ trace' = Append(trace, Ev("imap", "main", None, None, "", <<>>))
    /\ st' = [st EXCEPT !.main.pc = "progress"]
    /\ UNCHANGED <<others, kind, images, blocks, has_data, has_stack, img, completed, outcome>>

\* sequence.py 218-222: the iterator is handed to progress(..., total=n); an
\* exception leaves the with block, which terminates the pool
MPProgress ==
    /\ st.main.pc = "progress"
    /\ IF ProgressCall(st.main.show_progress) = "iterator"
       THEN /\ st' = [st EXCEPT !.main.pc = "iterate"]
            /\ UNCHANGED <<pool, outcome>>
       ELSE /\ st' = [st EXCEPT !.main.pc = "raised"]
            /\ pool' = [pool EXCEPT !.alive = FALSE]
            /\ outcome' = "TypeError"
    /\ UNCHANGED <<others, kind, images, blocks, has_data, has_stack, img, completed, trace, wlog>>

\* sequence.py 230-238: a worker takes the task of input j and loads a path;
\* the pool hands out the tasks of imap in submission order
WorkerStart(j) ==
    /\ pool.alive
    /\ pool.task[j].state = "queued"
    /\ \A k \in DOMAIN img : k < j => pool.task[k].state # "queued"
    /\ pool' = [pool EXCEPT !.task[j].state = "running"]
    /\ wlog' = IF img[j].loaded THEN wlog
               ELSE [wlog EXCEPT ![j] = Append(@, Ev("load", "worker", None, j, "", <<>>))]
    /\ img' = [img EXCEPT ![j].loaded = TRUE]
    /\ UNCHANGED <<others, kind, images, blocks, has_data, has_stack, st, completed, trace, outcome>>

\* sequence.py 242: the test that lets a block run on the image in a worker
WorkerMayRun(image) == ~image.discard

\* sequence.py 240-247: one iteration of the loop of _run_all
WorkerBlock(j) ==
    /\ pool.alive
    /\ pool.task[j].state = "running"
    /\ pool.task[j].b < Len(blocks.main)
    /\ LET t == pool.task[j]
       IN  IF WorkerMayRun(img[j])
           THEN \E eff \in Effects :
                  /\ wlog' = [wlog EXCEPT ![j] = Append(@, Block_run("worker", t.b, j, eff))]
                  /\ img' = [img EXCEPT ![j].discard = (@ \/ eff = "discard")]
                  /\ IF eff = "raise"
                     THEN /\ pool' = [pool EXCEPT !.task[j].state = "failed"]
                          /\ completed' = Append(completed, j)
                     ELSE /\ pool' = [pool EXCEPT !.task[j].b = t.b + 1]
                          /\ UNCHANGED completed
           ELSE /\ pool' = [pool EXCEPT !.task[j].b = t.b + 1,
                                        !.task[j].discard_message = TRUE]
                /\ wlog' = IF ~t.discard_message
                           THEN [wlog EXCEPT ![j] = Append(@,
                                   Ev("warning", "worker", None, j,
                                      PyIndex(blocks.main, t.b - 1).cls, <<>>))]
                           ELSE wlog
                /\ UNCHANGED <<img, completed>>
    /\ UNCHANGED <<others, kind, images, blocks, has_data, has_stack, st, trace, outcome>>

\* sequence.py 249: the worker returns the image
WorkerReturn(j) ==
    /\ pool.alive
    /\ pool.task[j].state = "running"
    /\ pool.task[j].b = Len(blocks.main)
    /\ pool' = [pool EXCEPT !.task[j].state = "done"]
    /\ completed' = Append(completed, j)
    /\ UNCHANGED <<others, kind, images, blocks, has_data, has_stack, st, img, trace, wlog, outcome>>

\* the data sub-sequence is not inside a call of run
DataIdle == st.data.pc \in {"idle", "done"}

\* mutant of NextResult: results are taken as workers return them (imap_unordered)
NextResult_Unordered ==
    IF st.main.i < Len(completed)
    THEN completed[st.main.i + 1]
    ELSE st.main.files[st.main.i + 1]

\* sequence.py 218-222: pool.imap yields results in the order of the inputs
NextResult == st.main.files[st.main.i + 1]

\* mutant of ResultReady: the iterator yields the image of an input without
\* waiting for its worker
ResultReady_Early(task) == TRUE

\* sequence.py 218: next() of the imap iterator blocks until the worker of the
\* input has returned or raised
ResultReady(task) == task.state \in {"done", "failed"}

\* mutant of DataRunArgs: terminate is left at its default
DataRunArgs_Defaults == [show_progress |-> FALSE, live_discard |-> FALSE, terminate |-> TRUE]

\* sequence.py 224 (and the default of live_discard at 41): the arguments of the
\* per-image call of self.data.run
DataRunArgs == [show_progress |-> FALSE, live_discard |-> FALSE, terminate |-> FALSE]

\* sequence.py 218-224: the imap iterator yields the result of the next input in
\* submission order, re-raising what its worker raised; the image goes to
\* self.data.run(image, terminate=False, show_progress=False)
MPNext ==
    /\ st.main.pc = "iterate"
    /\ DataIdle
    /\ st.main.i < Len(st.main.files)
    /\ LET j == NextResult
       IN  /\ ResultReady(pool.task[j])
           /\ IF pool.task[j].state = "failed"
              THEN /\ st' = [st EXCEPT !.main.pc = "raised"]
                   /\ pool' = [pool EXCEPT !.alive = FALSE]
                   /\ outcome' = "BlockError"
                   /\ UNCHANGED trace
              ELSE /\ st' = [st EXCEPT
                         !.main.i = @ + 1,
                         !.data = IF has_data
                                  THEN RunFrame(@, "single", <<j>>, DataRunArgs.show_progress,
                                                DataRunArgs.live_discard,
                                                DataRunArgs.terminate)
                                  ELSE @]
                   /\ trace' = IF has_data
                               THEN Append(trace, Ev("data.run", "main", None, j, "", <<>>))
                               ELSE trace
                   /\ UNCHANGED <<pool, outcome>>
    /\ UNCHANGED <<others, kind, images, blocks, has_data, has_stack, img, completed, wlog>>

\* sequence.py 217, 226-228: the with block terminates the pool, then the data
\* sub-sequence alone is terminated
MPFinish ==
    /\ st.main.pc = "iterate"
    /\ DataIdle
    /\ st.main.i = Len(st.main.files)
    /\ pool' = [pool EXCEPT !.alive = FALSE]
    /\ trace' = IF st.main.terminate /\ has_data
                THEN trace \o TerminateCalls("data") ELSE trace
    /\ st' = [st EXCEPT !.main.pc = "done"]
    /\ outcome' = "ok"
    /\ UNCHANGED <<others, kind, images, blocks, has_data, has_stack, img, completed, wlog>>

\* ------------------------------------------------------------------ Unit.run
\* pipeline/base.py 53-54: chain positions of the blocks with and without stack
StackBlocks == SelectSeq([x \in 1..Len(blocks.main) |-> x - 1],
                         LAMBDA k : blocks.main[k + 1].stack)

\* mutant of FileBlocks: the per-file loop goes over every block of the chain
FileBlocks_All == [x \in 1..Len(blocks.main) |-> x - 1]

\* pipeline/base.py 54: chain positions of the blocks without stack
FileBlocks == SelectSeq([x \in 1..Len(blocks.main) |-> x - 1],
                        LAMBDA k : ~blocks.main[k + 1].stack)

\* mutant of InitializeCalls: only the per-file blocks are initialized
InitializeCalls_FileBlocks ==
    [x \in 1..Len(FileBlocks) |->
        Ev("initialize", "main", FileBlocks[x], None, "A", <<>>)]

\* pipeline/base.py 50-51: the initialize calls, in chain order
InitializeCalls ==
    [x \in 1..Len(blocks.main) |->
        Ev("initialize", "main", x - 1, None, blocks.main[x].cls, <<>>)]

\* pipeline/base.py 43-51: the files are checked, then every block is initialized
UnitRun ==
    /\ kind = "Unit"
    /\ st.main.pc = "idle"
    /\ \E arg \in Arguments :
          /\ \A x \in DOMAIN arg.items : arg.items[x] = "path"
          /\ arg.shape # "tuple"
          /\ images' = arg
          /\ img' = ImagesOf(arg.items)
          /\ IF NoImages(arg.shape, arg.items)
             THEN /\ st' = [st EXCEPT !.main.pc = "raised", !.main.shape = arg.shape]
                  /\ outcome' = "ValueError"
                  /\ UNCHANGED trace
             ELSE /\ st' = [st EXCEPT !.main.pc = "stack", !.main.shape = arg.shape,
                                      !.main.files = Positions(arg.items),
                                      !.main.i = 0, !.main.b = 0]
                  /\ trace' = trace \o InitializeCalls
                  /\ UNCHANGED outcome
    /\ UNCHANGED <<others, kind, blocks, has_data, has_stack, pool, completed, wlog>>

\* pipeline/base.py 57-59: one stack block runs on the stack image, then its
\* stack_method
UnitStack ==
    /\ kind = "Unit"
    /\ st.main.pc = "stack"
    /\ st.main.b < Len(StackBlocks)
    /\ LET k == StackBlocks[st.main.b + 1]
       IN  \E eff \in {"ok", "raise"} :
             IF ~has_stack
             THEN \* base.py 33-34, 58: self.stack_image was never set
                  /\ st' = [st EXCEPT !.main.pc = "raised"]
                  /\ outcome' = "AttributeError"
                  /\ UNCHANGED trace
             ELSE IF eff = "raise"
             THEN /\ trace' = Append(trace, Ev("run", "main", k, StackImage, eff, <<>>))
                  /\ st' = [st EXCEPT !.main.pc = "raised"]
                  /\ outcome' = "BlockError"
             ELSE /\ trace' = trace \o <<Ev("run", "main", k, StackImage, eff, <<>>),
                                         Ev("stack_method", "main", k, StackImage, "", <<>>)>>
                  /\ st' = [st EXCEPT !.main.b = @ + 1]
                  /\ UNCHANGED outcome
    /\ UNCHANGED <<others, kind, images, blocks, has_data, has_stack, img, pool, completed, wlog>>

\* pipeline/base.py 61-62: the next file is opened
UnitFile ==
    /\ kind = "Unit"
    /\ \/ st.main.pc = "stack" /\ st.main.b = Len(StackBlocks)
       \/ st.main.pc = "file" /\ st.main.b = Len(FileBlocks)
    /\ st.main.i < Len(st.main.files)
    /\ LET j == st.main.files[st.main.i + 1]
       IN  /\ trace' = Append(trace, Ev("load", "main", None, j, "", <<>>))
           /\ img' = [img EXCEPT ![j].loaded = TRUE]
    /\ st' = [st EXCEPT !.main.pc = "file", !.main.b = 0, !.main.i = @ + 1]
    /\ UNCHANGED <<others, kind, images, blocks, has_data, has_stack, pool, completed, wlog, outcome>>

\* pipeline/base.py 63-66: one block runs on the image of the current file
UnitBlock ==
    /\ kind = "Unit"
    /\ st.main.pc = "file"
    /\ st.main.b < Len(FileBlocks)
    /\ LET k == FileBlocks[st.main.b + 1]
           j == st.main.files[st.main.i]
       IN  \E eff \in {"ok", "raise"} :
             /\ trace' = Append(trace, Ev("run", "main", k, j, eff, <<>>))
             /\ IF eff = "raise"
                THEN /\ st' = [st EXCEPT !.main.pc = "raised"]
                     /\ outcome' = "BlockError"
                ELSE /\ st' = [st EXCEPT !.main.b = @ + 1]
                     /\ UNCHANGED outcome
    /\ UNCHANGED <<others, kind, images, blocks, has_data, has_stack, img, pool, completed, wlog>>

\* pipeline/base.py 68-69: every block is terminated
UnitTerminate ==
    /\ kind = "Unit"
    /\ \/ st.main.pc = "stack" /\ st.main.b = Len(StackBlocks)
       \/ st.main.pc = "file" /\ st.main.b = Len(FileBlocks)
    /\ st.main.i = Len(st.main.files)
    /\ trace' = trace \o TerminateCalls("main")
    /\ st' = [st EXCEPT !.main.pc = "done"]
    /\ outcome' = "ok"
    /\ UNCHANGED <<others, kind, images, blocks, has_data, has_stack, img, pool, completed, wlog>>

Next ==
    \/ SeqRun
    \/ \E o \in Objects : SeqDispatch(o)
    \/ \E o \in Objects : SeqBlock(o)
    \/ \E o \in Objects : SeqEndImage(o)
    \/ \E o \in Objects : SeqTerminate(o)
    \/ \E o \in Objects : SeqReport(o)
    \/ MPRun
    \/ MPSubmit
    \/ MPProgress
    \/ \E j \in DOMAIN img : WorkerStart(j)
    \/ \E j \in DOMAIN img : WorkerBlock(j)
    \/ \E j \in DOMAIN img : WorkerReturn(j)
    \/ MPNext
    \/ MPFinish
    \/ UnitRun
    \/ UnitStack
    \/ UnitFile
    \/ UnitBlock
    \/ UnitTerminate

Spec == Init /\ [][Next]_vars

\* a caller that uses a Sequence only
InitSeq == Init /\ kind = "Sequence"

NextSeq ==
    \/ SeqRun
    \/ SeqDispatch("main")
    \/ SeqBlock("main")
    \/ SeqEndImage("main")
    \/ SeqTerminate("main")
    \/ SeqReport("main")

SpecSeq == InitSeq /\ [][NextSeq]_vars

\* a caller that uses a Unit only
InitUnit == Init /\ kind = "Unit"

NextUnit ==
    \/ UnitRun
    \/ UnitStack
    \/ UnitFile
    \/ UnitBlock
    \/ UnitTerminate

SpecUnit == InitUnit /\ [][NextUnit]_vars

\* a caller that uses an MPSequence only
InitMP == Init /\ kind = "MPSequence"

NextMP ==
    \/ MPRun
    \/ MPSubmit
    \/ MPProgress
    \/ \E j \in DOMAIN img : WorkerStart(j)
    \/ \E j \in DOMAIN img : WorkerBlock(j)
    \/ \E j \in DOMAIN img : WorkerReturn(j)
    \/ MPNext
    \/ MPFinish
    \/ SeqDispatch("data")
    \/ SeqBlock("data")
    \/ SeqEndImage("data")
    \/ SeqTerminate("data")
    \/ SeqReport("data")

SpecMP == InitMP /\ [][NextMP]_vars

\* ---------------------------------------------------- queries of a Sequence
\* sequence.py 149-160: the descriptors of the blocks of a chain, in chain order
AsDicts(chain) ==
    [x \in DOMAIN chain |->
        [block |-> chain[x].cls, name |-> chain[x].name,
         args |-> chain[x].args, kwargs |-> chain[x].kwargs]]

\* block_dict["block"](*args, **kwargs): a new block of the class, which keeps
\* the arguments it was constructed from and has no name yet
Construct(cls, args, kwargs) == NewBlock(cls, NoName, args, kwargs, FALSE, None)

\* mutant of FromDicts: the name of the descriptor is not given to the block
FromDicts_Unnamed(ds) ==
    Registered(Identified(
        [x \in DOMAIN ds |-> Construct(ds[x].block, ds[x].args, ds[x].kwargs)],
        Len(supplied)))

\* sequence.py 139-147: the blocks of Sequence.from_dicts(ds)
FromDicts(ds) ==
    Registered(Identified(
        [x \in DOMAIN ds |->
            [Construct(ds[x].block, ds[x].args, ds[x].kwargs) EXCEPT !.name = ds[x].name]],
        Len(supplied)))

\* what block.citations() returns: None, a string, or a tuple of strings
NoCitation == [none |-> TRUE, tuple |-> FALSE, val |-> <<>>]

\* calibration.py 104-105 (Calibration), and the default of a block that cites
\* nothing
BlockCitations(cls) ==
    IF cls = "Calibration"
    THEN [none |-> FALSE, tuple |-> TRUE, val |-> <<"astropy", "numpy">>]
    ELSE NoCitation

\* sequence.py 122-124: the list of what the blocks return, None when it is empty
Citations(chain) ==
    LET c == SelectSeq([x \in DOMAIN chain |-> BlockCitations(chain[x].cls)],
                       LAMBDA v : ~v.none)
    IN  IF Len(c) > 0
        THEN [none |-> FALSE, val |-> [x \in DOMAIN c |-> [tuple |-> c[x].tuple, val |-> c[x].val]]]
        ELSE [none |-> TRUE, val |-> <<>>]

\* the caller reads seq.as_dicts
AsDictsCall ==
    /\ kind = "Sequence"
    /\ st.main.pc = "idle"
    /\ ~ret.as_dicts.done
    /\ ret' = [ret EXCEPT !.as_dicts = [done |-> TRUE, val |-> AsDicts(blocks.main)]]
    /\ UNCHANGED <<pipeline, supplied, imagevars>>

\* the caller invokes Sequence.from_dicts on the descriptors it read
FromDictsCall ==
    /\ kind = "Sequence"
    /\ st.main.pc = "idle"
    /\ ret.as_dicts.done
    /\ ~ret.from_dicts.done
    /\ ret' = [ret EXCEPT !.from_dicts = [done |-> TRUE, val |-> FromDicts(ret.as_dicts.val)]]
    /\ UNCHANGED <<pipeline, supplied, imagevars>>

\* the caller invokes seq.citations()
CitationsCall ==
    /\ kind = "Sequence"
    /\ st.main.pc = "idle"
    /\ ~ret.citations.done
    /\ LET c == Citations(blocks.main)
       IN  ret' = [ret EXCEPT !.citations = [done |-> TRUE, none |-> c.none, val |-> c.val]]
    /\ UNCHANGED <<pipeline, supplied, imagevars>>

\* blocks of one class that differ in their names only
NamedBlocks == {NewBlock("A", n, <<>>, <<>>, FALSE, None) : n \in Names}

\* blocks that differ in class, name and construction arguments
DescribedBlocks ==
    {NewBlock(c, n, k.args, k.kwargs, FALSE, None) :
        c \in NamedClasses, n \in Names, k \in Constructions}

\* run() was not called
NotRun ==
    /\ images = [shape |-> "unset", items |-> <<>>]
    /\ st = [o \in Objects |-> FreshFrame]
    /\ img = <<>>
    /\ pool = [alive |-> FALSE, task |-> <<>>]
    /\ completed = <<>>
    /\ trace = <<>>
    /\ wlog = <<>>
    /\ outcome = "none"

\* a Sequence constructed from up to MaxSupplied blocks of the set universe
InitNamed(universe) ==
    /\ kind = "Sequence"
    /\ \E bs \in SeqsOf(universe, 0, MaxSupplied) : supplied = Identified(bs, 0)
    /\ blocks = [main |-> Registered(supplied), data |-> <<>>]
    /\ has_data = FALSE
    /\ has_stack = FALSE
    /\ NotRun
    /\ ret = NoReturns
    /\ NoImagesMade

\* a caller that builds a Sequence from named blocks and runs it on one image
\* with the default options
InitReg == InitNamed(NamedBlocks)

OneImageRun ==
    /\ SeqRun
    /\ images' = [shape |-> "list", items |-> <<"image">>]
    /\ st'.main.show_progress
    /\ ~st'.main.live_discard
    /\ st'.main.terminate

NextReg ==
    \/ OneImageRun
    \/ SeqDispatch("main")
    \/ SeqBlock("main")
    \/ SeqEndImage("main")
    \/ SeqTerminate("main")
    \/ SeqReport("main")

SpecReg == InitReg /\ [][NextReg]_vars

\* a caller that builds a Sequence from described blocks and queries it
InitQuery == InitNamed(DescribedBlocks)

NextQuery ==
    \/ AsDictsCall
    \/ FromDictsCall
    \/ CitationsCall

SpecQuery == InitQuery /\ [][NextQuery]_vars

\* ------------------------------------------------------- calls on an Image
Call(op, k, name, raised, val) ==
    [op |-> op, image |-> k, name |-> name, raised |-> raised, val |-> val]

\* the names blocks attach results under, the names the caller reads
DynamicNames == {"x"}
ReadNames == {"x", "catalogs"}

\* the caller has taken what the last call returned; the calls are made one
\* after another
Returned == got = NoCall

Return ==
    /\ ~Returned
    /\ got' = NoCall
    /\ UNCHANGED <<pipeline, supplied, ret, heap, inst, writes>>

\* image.py 206-207: image.set(name, value)
ImageSet(k, name, v) ==
    /\ Made(k)
    /\ Returned
    /\ writes < MaxWrites
    /\ heap' = [heap EXCEPT ![Cell(At(inst[k], "computed"))] = Put(@, name, v)]
    /\ got' = NoCall
    /\ writes' = writes + 1
    /\ UNCHANGED <<pipeline, supplied, ret, inst>>

\* image.py 209-210: image.get(name)
ImageGet(k, name) ==
    /\ Made(k)
    /\ Returned
    /\ got' = IF Has(Computed(heap, inst[k]), name)
              THEN Call("get", k, name, "", At(Computed(heap, inst[k]), name))
              ELSE Call("get", k, name, "KeyError", NoneV)
    /\ UNCHANGED <<pipeline, supplied, ret, heap, inst, writes>>

\* image.name = value
ImageAssign(k, name, v) ==
    /\ Made(k)
    /\ Returned
    /\ writes < MaxWrites
    /\ LET r == SetAttr(heap, inst[k], name, v)
       IN  /\ heap' = r.heap
           /\ inst' = [inst EXCEPT ![k] = r.dict]
    /\ got' = NoCall
    /\ writes' = writes + 1
    /\ UNCHANGED <<pipeline, supplied, ret>>

\* the caller reads image.name
ImageRead(k, name) ==
    /\ Made(k)
    /\ Returned
    /\ LET r == GetAttr(heap, inst[k], name)
       IN  got' = Call("read", k, name, r.raised, r.val)
    /\ UNCHANGED <<pipeline, supplied, ret, heap, inst, writes>>

\* image.metadata[key] = value, image.computed[key] = value
StoreWrite(k, store, key, v) ==
    /\ Made(k)
    /\ Returned
    /\ writes < MaxWrites
    /\ heap' = [heap EXCEPT ![Cell(At(inst[k], store))] = Put(@, key, v)]
    /\ got' = NoCall
    /\ writes' = writes + 1
    /\ UNCHANGED <<pipeline, supplied, ret, inst>>

\* image.computed[key].append(value): the object stored under key is changed
ValueWrite(k, key, v) ==
    /\ Made(k)
    /\ Returned
    /\ writes < MaxWrites
    /\ Has(Computed(heap, inst[k]), key)
    /\ At(Computed(heap, inst[k]), key).ref
    /\ heap' = [heap EXCEPT ![Cell(At(Computed(heap, inst[k]), key))] = Put(@, "n", v)]
    /\ got' = NoCall
    /\ writes' = writes + 1
    /\ UNCHANGED <<pipeline, supplied, ret, inst>>

\* image.py 34-59: image.copy(data); the new Image is the next instance
ImageCopy(s, data) ==
    /\ Made(s)
    /\ Returned
    /\ \E k \in ImageIds :
          /\ ~Made(k)
          /\ \A j \in ImageIds : j < k => Made(j)
          /\ LET self == inst[s]
                 \* 47-51: Image(deepcopy(self.data) or None, deepcopy(self.metadata),
                 \*              deepcopy(self.computed))
                 c1 == IF data THEN DeepCopy(heap, At(self, "data"), k, "data")
                       ELSE [val |-> NoneV, heap |-> heap]
                 c2 == DeepCopy(c1.heap, At(self, "metadata"), k, "metadata")
                 c3 == DeepCopy(c2.heap, At(self, "computed"), k, "computed")
                 h3 == [c3.heap EXCEPT ![<<k, "catalogs">>] = {}, ![<<k, "_sources">>] = {}]
                 \* 53-54: del new_self.__dict__[...]
                 d1 == Del(Del(NewImage(k, c1.val, c2.val, c3.val), "catalogs"), "_sources")
                 \* 56: new_self.catalogs = deepcopy(self.catalogs)
                 p4 == IF HasAttr(h3, d1, "catalogs") THEN "catalogs"
                       ELSE "computed.catalogs"
                 c4 == DeepCopy(h3, GetAttr(h3, self, "catalogs").val, k, p4)
                 a4 == SetAttr(c4.heap, d1, "catalogs", c4.val)
                 \* 57: new_self._sources = copy(self._sources)
                 p5 == IF HasAttr(a4.heap, a4.dict, "_sources") THEN "_sources"
                       ELSE "computed._sources"
                 c5 == ShallowCopy(a4.heap, GetAttr(a4.heap, self, "_sources").val, k, p5)
                 a5 == SetAttr(c5.heap, a4.dict, "_sources", c5.val)
             IN  /\ heap' = a5.heap
                 /\ inst' = [inst EXCEPT ![k] = a5.dict]
                 /\ got' = Call("copy", k, IF data THEN "data=True" ELSE "data=False",
                                "", NoneV)
    /\ UNCHANGED <<pipeline, supplied, ret, writes>>

\* a caller that makes an Image, with or without a pixel buffer, and handles it
\* and its copies
InitImage ==
    /\ kind = "Sequence"
    /\ supplied = <<>>
    /\ blocks = [main |-> <<>>, data |-> <<>>]
    /\ has_data = FALSE
    /\ has_stack = FALSE
    /\ NotRun
    /\ ret = NoReturns
    /\ \E buffer \in BOOLEAN :
          /\ inst = [k \in ImageIds |->
                       IF k = 0
                       THEN NewImage(0, IF buffer THEN Ref(0, "data") ELSE NoneV,
                                     Ref(0, "metadata"), Ref(0, "computed"))
                       ELSE {}]
          /\ heap = [c \in Cells |->
                       IF c = <<0, "data">> /\ buffer THEN {<<"px", Scalar("a")>>}
                       ELSE IF c = <<0, "metadata">> THEN {<<"m", Scalar("a")>>}
                       ELSE IF c = <<0, "computed">> THEN {<<"l", Ref(0, "computed.l")>>}
                       ELSE IF c = <<0, "computed.l">> THEN {<<"n", Scalar("a")>>}
                       ELSE {}]
    /\ got = NoCall
    /\ writes = 0

NextImage ==
    \/ \E k \in ImageIds, name \in DynamicNames, v \in Scalars : ImageSet(k, name, v)
    \/ \E k \in ImageIds, name \in DynamicNames : ImageGet(k, name)
    \/ \E k \in ImageIds, name \in DynamicNames, v \in Scalars : ImageAssign(k, name, v)
    \/ \E k \in ImageIds, name \in ReadNames : ImageRead(k, name)
    \/ \E k \in ImageIds : StoreWrite(k, "metadata", "m", Scalar("b"))
    \/ \E k \in ImageIds : ValueWrite(k, "l", Scalar("b"))
    \/ \E s \in ImageIds, data \in BOOLEAN : ImageCopy(s, data)
    \/ Return

SpecImage == InitImage /\ [][NextImage]_vars

\* ================================================================== claims
\* ------------------------------------------------------- reading the logs
IsRun(e, o, j) == e.op = "run" /\ e.obj = o /\ e.img = j

\* the log in which the traversal of image j by o is written
TraversalLog(o, j) ==
    IF o = "worker"
    THEN IF j \in DOMAIN wlog THEN wlog[j] ELSE <<>>
    ELSE trace

\* some call written in the log of the calling process or of a worker satisfies P
SomeEvent(P(_)) ==
    \/ \E p \in DOMAIN trace : P(trace[p])
    \/ \E j \in DOMAIN wlog : \E p \in DOMAIN wlog[j] : P(wlog[j][p])

\* positions of the main chain, of the inputs
ChainPositions(o) == 0..(Len(blocks[o]) - 1)
InputPositions == 0..(Len(images.items) - 1)

Called == images.shape # "unset"

\* the main chain holds an instance of a DataBlock class
DataBlockInChain == \E x \in DOMAIN blocks.main : blocks.main[x].cls \in DataClasses

\* no loader call, no block call, no pool
NothingDone ==
    /\ trace = <<>>
    /\ wlog = <<>>
    /\ completed = <<>>
    /\ ~pool.alive
    /\ pool.task = <<>>
    /\ \A j \in DOMAIN img : img[j].loaded = (images.items[j + 1] # "path")

\* C1: once the discard flag of an image is true when a block has finished its
\* run on it, no block at a greater position of the chain runs on that image in
\* that traversal (Sequence.run, the data sub-sequence, _run_all in a worker);
\* an image whose flag is true on entry has no block run on it at all.
C1_DiscardShortCircuit ==
    \A j \in DOMAIN img :
        /\ \A o \in {"main", "data", "worker"} :
              LET L == TraversalLog(o, j)
              IN  \A p \in DOMAIN L :
                      (IsRun(L[p], o, j) /\ L[p].name = "discard")
                          => \A q \in DOMAIN L : IsRun(L[q], o, j) => L[q].blk <= L[p].blk
        /\ images.items[j + 1] = "discarded"
              => ~SomeEvent(LAMBDA e : e.op = "run" /\ e.img = j)
        /\ SomeEvent(LAMBDA e : IsRun(e, "worker", j) /\ e.name = "discard")
              => ~\E p \in DOMAIN trace : IsRun(trace[p], "data", j)

\* witness of C1: a worker discarded an image at the first of two blocks and
\* returned it, and the data sub-sequence, which has a block, has handled it
C1_Witness ==
    /\ kind = "MPSequence"
    /\ Len(blocks.main) = 2
    /\ Len(blocks.data) = 1
    /\ \E j \in DOMAIN wlog :
          /\ \E e \in Range(wlog[j]) : IsRun(e, "worker", j) /\ e.blk = 0
                                       /\ e.name = "discard"
          /\ pool.task[j].state = "done"
          /\ st.data.pc = "done"
          /\ st.data.files = <<j>>

\* ---- C2
InReport(name, i) ==
    \E e \in Range(trace) :
        e.op = "summary" /\ e.obj = "main" /\ e.name = name /\ i \in Range(e.idxs)

DiscardedBy(k, i) ==
    \E e \in Range(trace) : IsRun(e, "main", i) /\ e.blk = k /\ e.name = "discard"

NoDuplicates(s) == \A x \in DOMAIN s, y \in DOMAIN s : s[x] = s[y] => x = y

\* C2: after Sequence.run with live_discard = FALSE, the pair (block k, image i)
\* is in the end-of-run discard report exactly when the run of block k set the
\* discard flag of image i, with no duplicate; stated here for chains of pairwise
\* distinct classes and inputs whose flag is clear on entry.
C2_ReportExact ==
    ( /\ kind = "Sequence"
      /\ st.main.pc = "done"
      /\ ~st.main.live_discard
      /\ \A x \in DOMAIN blocks.main, y \in DOMAIN blocks.main :
            blocks.main[x].cls = blocks.main[y].cls => x = y
      /\ \A x \in DOMAIN images.items : images.items[x] # "discarded" )
    => /\ \A k \in ChainPositions("main"), i \in InputPositions :
             InReport(blocks.main[k + 1].cls, i) <=> DiscardedBy(k, i)
       /\ \A e \in Range(trace) : e.op = "summary" => NoDuplicates(e.idxs)

\* C3: when Sequence.run has returned, n_processed_images is the number of
\* inputs, discarded images included.
C3_ProcessedCount ==
    (kind = "Sequence" /\ st.main.pc = "done")
        => st.main.n_processed_images = Len(images.items)

\* witness of C3: a run of two images has returned and one of them was discarded
C3_Witness ==
    /\ kind = "Sequence"
    /\ st.main.pc = "done"
    /\ Len(images.items) = 2
    /\ st.main.n_processed_images = 2
    /\ \E e \in Range(trace) : e.op = "run" /\ e.name = "discard"

\* ---- C4
EmptyCall ==
    /\ kind \in {"Sequence", "MPSequence"}
    /\ \/ images.shape = "none"
       \/ images.shape = "list" /\ Len(images.items) = 0

\* C4 as stated: run with an empty list or None raises the no-images error
\* before any loader call, block call or pool submission.
C4_EmptyRaisesNoImages ==
    EmptyCall => (outcome = "ValueError" /\ NothingDone)

\* C4 amended: run with an empty list or None aborts before any loader call,
\* block call, terminate or pool submission; the error is the no-images error,
\* except for an MPSequence whose main chain holds a DataBlock, which aborts
\* with the data-block error first.
C4_EmptyAborts ==
    EmptyCall =>
        /\ NothingDone
        /\ st.main.pc = "raised"
        /\ st.data.pc = "idle"
        /\ outcome = IF kind = "MPSequence" /\ DataBlockInChain
                     THEN "SystemExit" ELSE "ValueError"

\* witness of C4: an MPSequence with a valid chain was run with None
C4_Witness ==
    /\ kind = "MPSequence"
    /\ images.shape = "none"
    /\ Len(blocks.main) = 2
    /\ ~DataBlockInChain
    /\ outcome = "ValueError"

\* C5: MPSequence.run with a DataBlock in the main chain aborts with the
\* data-block error before any image is loaded, any block is run and the pool
\* is created, whatever the input.
C5_DataBlockAborts ==
    (kind = "MPSequence" /\ DataBlockInChain /\ Called)
        => /\ outcome = "SystemExit"
           /\ st.main.pc = "raised"
           /\ st.data.pc = "idle"
           /\ NothingDone

\* witness of C5: the DataBlock is the second block and the input holds a path
C5_Witness ==
    /\ kind = "MPSequence"
    /\ Len(blocks.main) = 2
    /\ ~IsDataBlock(blocks.main[1])
    /\ IsDataBlock(blocks.main[2])
    /\ Len(images.items) = 2
    /\ images.items[1] = "path"
    /\ outcome = "SystemExit"


\* ---- C6
\* positions of the trace that hold a call op of object o on block k
CallsAt(op, o, k) ==
    {p \in DOMAIN trace : trace[p].op = op /\ trace[p].obj = o /\ trace[p].blk = k}

RunPositions == {p \in DOMAIN trace : trace[p].op = "run"}

\* every block of the main chain was initialized once, before the first run
InitializedOnceFirst ==
    \A k \in ChainPositions("main") :
        /\ Cardinality(CallsAt("initialize", "main", k)) = 1
        /\ \A p \in CallsAt("initialize", "main", k), q \in RunPositions : p < q

TerminateEvents(o) == SelectSeq(trace, LAMBDA e : e.op = "terminate" /\ e.obj = o)

TerminatePositions(o) ==
    {p \in DOMAIN trace : trace[p].op = "terminate" /\ trace[p].obj = o}

\* every block of o was terminated once, in chain order
TerminatedInOrder(o) ==
    /\ Len(TerminateEvents(o)) = Len(blocks[o])
    /\ \A x \in DOMAIN TerminateEvents(o) : TerminateEvents(o)[x].blk = x - 1

\* C7: Sequence.run with terminate = TRUE and no block raising invokes every
\* block's terminate once, in chain order, after the last block invocation on
\* the last image; with terminate = FALSE it invokes none.
C7_TerminateOnceAtEnd ==
    kind = "Sequence" =>
        IF st.main.pc \in {"report", "done"} /\ st.main.terminate
        THEN /\ TerminatedInOrder("main")
             /\ \A p \in RunPositions, q \in TerminatePositions("main") : p < q
             /\ st.main.i = Len(images.items)
        ELSE TerminateEvents("main") = <<>>

\* witness of C7: two blocks have run on two images and were terminated
C7_Witness ==
    /\ kind = "Sequence"
    /\ st.main.pc = "done"
    /\ st.main.terminate
    /\ Len(blocks.main) = 2
    /\ Len(images.items) = 2
    /\ Cardinality(RunPositions) = 4
    /\ Len(TerminateEvents("main")) = 2

\* ---- C8
\* the images handed to the data sub-sequence, in the order of the calls
Fed == SelectSeq(trace, LAMBDA e : e.op = "data.run")

FedPosition(j) == CHOOSE p \in DOMAIN trace : trace[p].op = "data.run" /\ trace[p].img = j

IsFed(j) == \E p \in DOMAIN trace : trace[p].op = "data.run" /\ trace[p].img = j

CompletedPosition(j) == CHOOSE p \in DOMAIN completed : completed[p] = j

C9_TerminateAsymmetry ==
    kind = "MPSequence" =>
        /\ ~SomeEvent(LAMBDA e : e.op = "terminate" /\ e.obj # "data")
        /\ IF st.main.pc = "done" /\ st.main.terminate /\ has_data
           THEN /\ TerminatedInOrder("data")
                /\ Len(Fed) = Len(images.items)
                /\ \A p \in DOMAIN trace, q \in TerminatePositions("data") :
                      trace[p].op \in {"run", "data.run"} => p < q
           ELSE TerminateEvents("data") = <<>>

\* witness of C9: two images went through a main block and a data block, and
\* the data block was terminated
C9_Witness ==
    /\ kind = "MPSequence"
    /\ st.main.pc = "done"
    /\ st.main.terminate
    /\ has_data
    /\ Len(blocks.main) = 1
    /\ Len(blocks.data) = 1
    /\ Len(Fed) = 2
    /\ Len(TerminateEvents("data")) = 1

\* ---- C10
\* the input is not empty, the chain is accepted and no block has raised
PlainRun ==
    /\ kind \in {"Sequence", "MPSequence"}
    /\ Len(images.items) > 0
    /\ ~(kind = "MPSequence" /\ DataBlockInChain)
    /\ ~SomeEvent(LAMBDA e : e.op = "run" /\ e.name = "raise")

Ended == st.main.pc \in {"done", "raised"}

\* with show_progress = TRUE such a run returns normally
C10_WithProgress ==
    (PlainRun /\ Ended /\ st.main.show_progress) => outcome = "ok"

\* C10: a run with show_progress = FALSE ends as the run with show_progress =
\* TRUE does on the same inputs and blocks: when the input is not empty, the
\* chain is accepted and no block raises, it returns normally.
C10_SameEndWithoutProgress ==
    (PlainRun /\ Ended /\ ~st.main.show_progress) => outcome = "ok"

\* ---- C11
\* the live warnings about input i, the end-of-run summary warnings
LiveWarnings(i) ==
    {p \in DOMAIN trace : trace[p].op = "warning" /\ trace[p].obj = "main"
                          /\ trace[p].img = i}

SummaryPositions == {p \in DOMAIN trace : trace[p].op = "summary"}

SummariesOf(name) == {p \in SummaryPositions : trace[p].name = name}

\* the traversal of input i by Sequence.run is over
TraversalEnded(i) == st.main.i > i

\* C11: in Sequence.run with live_discard = TRUE every image a block discarded
\* has exactly one warning by the time the next image is dispatched, and no
\* summary warning is ever emitted; with live_discard = FALSE no warning is
\* emitted per image, the summary warnings come after every block run and every
\* terminate, and there is exactly one of them per block that discarded an
\* image. Stated for inputs whose flag is clear on entry.
C11_ReportingModes ==
    ( /\ kind = "Sequence"
      /\ \A x \in DOMAIN images.items : images.items[x] # "discarded" )
    => IF st.main.live_discard
       THEN /\ SummaryPositions = {}
            /\ \A i \in InputPositions :
                  /\ (TraversalEnded(i) /\ img[i].discard)
                        => Cardinality(LiveWarnings(i)) = 1
                  /\ ~img[i].discard => LiveWarnings(i) = {}
       ELSE /\ \A i \in InputPositions : LiveWarnings(i) = {}
            /\ SummaryPositions # {} => st.main.pc = "done"
            /\ \A p \in SummaryPositions, q \in DOMAIN trace :
                  trace[q].op \in {"load", "run", "terminate"} => q < p
            /\ st.main.pc = "done" =>
                  \A k \in ChainPositions("main") :
                      (\E i \in InputPositions : DiscardedBy(k, i))
                          => Cardinality(SummariesOf(blocks.main[k + 1].cls)) = 1

\* ---- C12
\* the blocks of the Sequence that from_dicts returned
Rebuilt == ret.from_dicts.val

\* block a and block b have the same class, name and construction arguments
SameDescription(a, b) ==
    /\ a.cls = b.cls
    /\ a.name = b.name
    /\ a.args = b.args
    /\ a.kwargs = b.kwargs

\* from_dicts(seq.as_dicts) has the blocks of seq, position by position, and
\* the same descriptors
RoundTrip ==
    /\ Len(Rebuilt) = Len(blocks.main)
    /\ \A x \in DOMAIN blocks.main :
          x \in DOMAIN Rebuilt /\ SameDescription(Rebuilt[x], blocks.main[x])
    /\ AsDicts(Rebuilt) = ret.as_dicts.val

\* C12 as stated: for a Sequence whose blocks have pairwise distinct names,
\* from_dicts(seq.as_dicts) has as many blocks as seq, with the same class,
\* name, args and kwargs at every position, and the same as_dicts.
C12_RoundTripDistinctNames ==
    ( /\ ret.from_dicts.done
      /\ \A x \in DOMAIN blocks.main, y \in DOMAIN blocks.main :
            blocks.main[x].name = blocks.main[y].name => x = y )
    => RoundTrip

\* the keys the blocks of seq get when they are registered again, each at the
\* position it has in seq, are pairwise distinct
DistinctKeys ==
    \A x \in DOMAIN blocks.main, y \in DOMAIN blocks.main :
        Key(blocks.main[x], x - 1) = Key(blocks.main[y], y - 1) => x = y

\* C12 amended: the round trip holds for every Sequence in which the name of
\* each named block and the default name block{i} of each unnamed block at
\* position i of seq are pairwise distinct.
C12_RoundTripDistinctKeys ==
    (ret.from_dicts.done /\ DistinctKeys) => RoundTrip

\* witness of C12: a Sequence of three blocks, one unnamed, one named, one of
\* them a Calibration made with arguments, went through the round trip
C12_Witness ==
    /\ ret.from_dicts.done
    /\ DistinctKeys
    /\ Len(blocks.main) = 3
    /\ Len(Rebuilt) = 3
    /\ blocks.main[1].name = NoName
    /\ blocks.main[2].name = "block1"
    /\ blocks.main[3].cls = "Calibration"
    /\ blocks.main[3].args = <<1>>

\* ---- C13
\* what a dict holds, the objects it refers to taken by their content
Content(d) ==
    {<<p[1], IF p[2].ref THEN heap[Cell(p[2])] ELSE {<<"", p[2]>>}>> : p \in d}

\* the metadata store and the computed store of Image k
Stores(k) ==
    [metadata |-> Content(heap[Cell(At(inst[k], "metadata"))]),
     computed |-> Content(Computed(heap, inst[k]))]

\* the step is a write on Image k: through set, through attribute assignment,
\* or directly into a store or into an object a store holds
Wrote(k) ==
    \/ \E name \in DynamicNames, v \in Scalars : ImageSet(k, name, v)
    \/ \E name \in DynamicNames, v \in Scalars : ImageAssign(k, name, v)
    \/ StoreWrite(k, "metadata", "m", Scalar("b"))
    \/ ValueWrite(k, "l", Scalar("b"))

\* the step makes Image k as a copy
Copied(k) == ~Made(k) /\ Made(k)'

\* C13: the Image that copy(data=False) returns has no data buffer, and the
\* metadata and computed stores of an Image and of its copies are independent:
\* a write on one Image (set, attribute assignment, direct) leaves the stores
\* of every other Image as they were, and making a copy leaves the stores of
\* the existing Images as they were.
C13_CopyIndependent ==
    [][ /\ \A k \in ImageIds :
              Wrote(k) => \A p \in ImageIds \ {k} : Made(p) => Stores(p)' = Stores(p)
        /\ \A k \in ImageIds :
              Copied(k) =>
                  /\ \A p \in ImageIds : Made(p) => Stores(p)' = Stores(p)
                  /\ got'.name = "data=False" => At(inst'[k], "data") = NoneV
      ]_vars

\* witness of C13: an Image with a pixel buffer was copied without data, and
\* after a set on the copy and a direct write into the metadata of the
\* original the stores of the two differ
C13_Witness ==
    /\ Made(1)
    /\ At(inst[0], "data").ref
    /\ At(inst[1], "data") = NoneV
    /\ Has(Computed(heap, inst[1]), "x")
    /\ ~Has(Computed(heap, inst[0]), "x")
    /\ At(heap[Cell(At(inst[0], "metadata"))], "m") = Scalar("b")
    /\ At(heap[Cell(At(inst[1], "metadata"))], "m") = Scalar("a")

\* ---- C14
\* C14: a read of image.name, for a name that __init__ does not declare,
\* returns the value the computed store holds under that name when it holds
\* one, and raises AttributeError when it holds none.
C14_Fallthrough ==
    (got.op = "read" /\ got.name \notin Declared)
        => LET c == Computed(heap, inst[got.image])
           IN  IF Has(c, got.name)
               THEN got.raised = "" /\ got.val = At(c, got.name)
               ELSE got.raised = "AttributeError"

\* ---- C15
\* the attribution strings the blocks of the chain cite
Cited ==
    UNION {Range(BlockCitations(blocks.main[x].cls).val) : x \in DOMAIN blocks.main}

\* C15: the list Sequence.citations() returns is made of single attribution
\* strings, holds every string some block cites, and holds no string twice.
C15_CitationsDeduplicated ==
    (ret.citations.done /\ ~ret.citations.none)
        => LET c == ret.citations.val
           IN  /\ \A x \in DOMAIN c : ~c[x].tuple /\ Len(c[x].val) = 1
               /\ \A w \in Cited : \E x \in DOMAIN c : c[x].val = <<w>>
               /\ \A x \in DOMAIN c, y \in DOMAIN c : c[x] = c[y] => x = y

\* ---- C16
\* the block runs of Sequence.run on input j, in the order they were made
RunsOn(j) == SelectSeq(trace, LAMBDA e : IsRun(e, "main", j))

\* the runs on input j are those of the first n blocks of the chain, in order
RanPrefix(j, n) ==
    /\ Len(RunsOn(j)) = n
    /\ \A x \in DOMAIN RunsOn(j) : RunsOn(j)[x].blk = x - 1

\* C16: in Sequence.run an image that is never discarded has the run of every
\* block invoked once, in chain order, by the time its traversal ends; the
\* images are handled one after another in input order, no call being made for
\* an image before the traversal of the image before it has ended; whether
\* another image was discarded changes nothing of this.
C16_PerImageTraversal ==
    kind = "Sequence" =>
        /\ \A j \in InputPositions :
              (TraversalEnded(j) /\ ~img[j].discard) => RanPrefix(j, Len(blocks.main))
        /\ \A p \in DOMAIN trace, q \in DOMAIN trace :
              (p < q /\ trace[p].img # None /\ trace[q].img # None)
                  => trace[p].img <= trace[q].img
        /\ \A p \in DOMAIN trace :
              trace[p].img # None =>
                  \A j \in InputPositions : j < trace[p].img => TraversalEnded(j)

\* witness of C16: of two images the first was discarded by the first of two
\* blocks, and both blocks ran on the second
C16_Witness ==
    /\ kind = "Sequence"
    /\ st.main.pc = "done"
    /\ Len(blocks.main) = 2
    /\ Len(images.items) = 2
    /\ Len(RunsOn(0)) = 1
    /\ RunsOn(0)[1].blk = 0
    /\ RunsOn(0)[1].name = "discard"
    /\ Len(RunsOn(1)) = 2
    /\ ~img[1].discard

\* ---- C17
\* positions of the trace at which the run of a block raised
RaisePositions == {p \in RunPositions : trace[p].name = "raise"}

\* C17: when the run of a block raises on the image at index j, Sequence.run
\* ends with that exception: the raising call is the last call made (no block
\* run on that image or a later one follows), no terminate was invoked, no
\* summary warning was emitted, and n_processed_images is j.
C17_BlockExceptionAborts ==
    kind = "Sequence" =>
        \A p \in RaisePositions :
            /\ p = Len(trace)
            /\ outcome = "BlockError"
            /\ st.main.pc = "raised"
            /\ TerminateEvents("main") = <<>>
            /\ SummaryPositions = {}
            /\ st.main.n_processed_images = trace[p].img
            /\ st.main.i = trace[p].img

\* witness of C17: the first image was discarded by the first of two blocks
\* and counted, and the second block raised on the second image
C17_Witness ==
    /\ kind = "Sequence"
    /\ Len(blocks.main) = 2
    /\ Len(images.items) = 2
    /\ st.main.terminate
    /\ ~st.main.live_discard
    /\ img[0].discard
    /\ st.main.n_processed_images = 1
    /\ outcome = "BlockError"
    /\ IsRun(trace[Len(trace)], "main", 1)
    /\ trace[Len(trace)].blk = 1
    /\ trace[Len(trace)].name = "raise"

\* ---- C18
\* the key the x-th supplied block is registered under
KeyOf(x) == Key(supplied[x], x - 1)

\* the positions of the supplied list that hold the key of the x-th block
SameKey(x) == {y \in DOMAIN supplied : KeyOf(y) = KeyOf(x)}

FirstOf(x) == CHOOSE y \in SameKey(x) : \A z \in SameKey(x) : y <= z

LastOf(x) == CHOOSE y \in SameKey(x) : \A z \in SameKey(x) : z <= y

\* the place in the chain of the key of the x-th supplied block: the number of
\* distinct keys supplied before the first occurrence of that key, plus one
PlaceOf(x) == 1 + Cardinality({KeyOf(z) : z \in {w \in DOMAIN supplied : w < FirstOf(x)}})

\* the supplied block (by identity) whose run an event of the trace records
RanId(p) == blocks.main[trace[p].blk + 1].id

RanIds == {RanId(p) : p \in RunPositions}

\* the run of every block of the chain was invoked on the image
AllRan == RanPrefix(0, Len(blocks.main))

\* the mapping keeps, per key, the block supplied last under it; a block
\* replaced under its key never runs
LastWriteWins ==
    /\ Len(blocks.main) = Cardinality({KeyOf(x) : x \in DOMAIN supplied})
    /\ \A x \in DOMAIN supplied :
          /\ \E c \in DOMAIN blocks.main : blocks.main[c] = supplied[LastOf(x)]
          /\ LastOf(x) # x => supplied[x].id \notin RanIds
          /\ (AllRan /\ LastOf(x) = x) => supplied[x].id \in RanIds

\* C18 as stated: blocks execute in the order they were supplied to the
\* constructor; an unnamed block at position i is registered under 'block{i}';
\* of two blocks with the same name only the later one is kept and run.
C18_SuppliedOrder ==
    /\ LastWriteWins
    /\ \A p \in RunPositions, q \in RunPositions : p < q => RanId(p) < RanId(q)

\* C18, amended: a block whose name is None at position i is registered under
\* 'block{i}'; of the supplied blocks with the same key only the one supplied
\* last is kept, at the place where the key was first supplied, and the run of
\* the others is never invoked; blocks execute in the order in which their
\* keys were first supplied.
C18_FirstKeyOrder ==
    /\ LastWriteWins
    /\ \A x \in DOMAIN supplied : blocks.main[PlaceOf(x)] = supplied[LastOf(x)]
    /\ \A p \in RunPositions :
          \E x \in DOMAIN supplied :
              /\ RanId(p) = supplied[LastOf(x)].id
              /\ trace[p].blk + 1 = PlaceOf(x)
    /\ \A p \in RunPositions, q \in RunPositions :
          p < q => trace[p].blk < trace[q].blk

\* witness of C18: three blocks were supplied, the third under the key of the
\* first and the second unnamed; the third and the second ran, in that order
C18_Witness ==
    /\ Len(supplied) = 3
    /\ supplied[1].name = "block0"
    /\ supplied[2].name = NoName
    /\ supplied[3].name = "block0"
    /\ Len(blocks.main) = 2
    /\ AllRan
    /\ blocks.main[RunsOn(0)[1].blk + 1].id = 2
    /\ blocks.main[RunsOn(0)[2].blk + 1].id = 1
    /\ TraversalEnded(0)

\* ---- C19
\* the traversal of the input at position j has begun
TraversalBegun(j) ==
    \/ TraversalEnded(j)
    \/ st.main.i = j /\ st.main.pc \in {"block", "raised"} /\ st.main.n_processed_images # None

\* C19: in Sequence.run the input at position i carries index i from the
\* moment the loop over the blocks is entered for it, and every block run on
\* it reads index i.
C19_IndexBeforeBlocks ==
    kind = "Sequence" =>
        /\ \A j \in InputPositions : TraversalBegun(j) => img[j].i = j
        /\ \A p \in RunPositions :
              trace[p].obj = "main" => trace[p].idxs = <<trace[p].img>>

\* witness of C19: both blocks ran on the second of two images and read 1
C19_Witness ==
    /\ kind = "Sequence"
    /\ Len(images.items) = 2
    /\ RanPrefix(1, 2)
    /\ RunsOn(1)[1].idxs = <<1>>
    /\ RunsOn(1)[2].idxs = <<1>>
    /\ img[1].i = 1

\* ---- C20
\* the position of the last "data.run" call made before position p of the trace
DataRunBefore(p) ==
    CHOOSE q \in DOMAIN trace :
        /\ q < p
        /\ trace[q].op = "data.run"
        /\ \A r \in DOMAIN trace : (r < p /\ trace[r].op = "data.run") => r <= q

\* C20: in MPSequence.run every data block reads, on the image it is run on,
\* the position of that image in the input list, and the summary warnings of
\* the data sub-sequence name that position.
C20_DataIndexIsPosition ==
    kind = "MPSequence" =>
        \A p \in DOMAIN trace :
            /\ IsRun(trace[p], "data", trace[p].img) => trace[p].idxs = <<trace[p].img>>
            /\ (trace[p].op = "summary" /\ trace[p].obj = "data")
                  => Range(trace[p].idxs) \subseteq {trace[DataRunBefore(p)].img}

\* ---- C21
\* C21: when MPSequence.run has returned normally on a non-empty input list,
\* n_processed_images is the number of inputs.
C21_MPProcessedCount ==
    (kind = "MPSequence" /\ outcome = "ok" /\ st.main.pc = "done"
        /\ Len(images.items) > 0)
        => st.main.n_processed_images = Len(images.items)

\* ---- C22
\* the block runs the worker of input j made, in order
WorkerRuns(j) == SelectSeq(wlog[j], LAMBDA e : IsRun(e, "worker", j))

\* the calls of data.run made with the image of input j
Deliveries(j) == {p \in DOMAIN trace : trace[p].op = "data.run" /\ trace[p].img = j}

\* the worker of input j has returned the image
Traversed(j) == pool.task[j].state = "done"

\* C22: in MPSequence.run the main chain is walked once per input, by the
\* worker of that input alone: each block runs at most once on the image, in
\* chain order, and every block has run when the worker returns an image
\* that was not discarded; the image is handed to the data sub-sequence at
\* most once, only after its worker returned, and once when run has returned
\* normally; the data sub-sequence is inside one call at a time, made by the
\* calling process, and runs its blocks on the image of that call only.
C22_ExactlyOnceHandOff ==
    (kind = "MPSequence" /\ pool.task # <<>>) =>
        /\ \A j \in InputPositions :
              /\ \A x \in DOMAIN WorkerRuns(j) : WorkerRuns(j)[x].blk = x - 1
              /\ \A e \in Range(wlog[j]) : e.obj = "worker" /\ e.img = j
              /\ (Traversed(j) /\ ~img[j].discard)
                    => Len(WorkerRuns(j)) = Len(blocks.main)
              /\ Cardinality(Deliveries(j)) <= 1
              /\ Deliveries(j) # {} => (has_data /\ Traversed(j))
              /\ (has_data /\ st.main.pc = "done") => Cardinality(Deliveries(j)) = 1
        /\ \A p \in RunPositions :
              /\ trace[p].obj = "data"
              /\ trace[DataRunBefore(p)].img = trace[p].img
        /\ Len(st.data.files) <= 1
        /\ st.data.pc \in {"loop", "block", "report"}
              => /\ st.main.pc = "iterate"
                 /\ st.data.files = <<Fed[Len(Fed)].img>>

\* witness of C22: the worker of the second input returned first; both images
\* went through both main blocks and then, in turn, through the data block
C22_Witness ==
    /\ kind = "MPSequence"
    /\ has_data
    /\ Len(blocks.main) = 2
    /\ completed = <<1, 0>>
    /\ Len(WorkerRuns(0)) = 2
    /\ Len(WorkerRuns(1)) = 2
    /\ Cardinality(Deliveries(0)) = 1
    /\ Cardinality(Deliveries(1)) = 1
    /\ IsRun(trace[Len(trace)], "data", 1)
    /\ st.main.pc = "done"
    /\ ~st.main.terminate

\* ---- C23
\* positions of the trace at which block k ran on image j
RunsOf(k, j) == {p \in RunPositions : trace[p].blk = k /\ trace[p].img = j}

\* the stack block that ran at position p ran on the stack image, once, before
\* any file was opened, and its stack_method followed at once
StackRunInPlace(p) ==
    LET k == trace[p].blk
    IN  /\ trace[p].img = StackImage
        /\ RunsOf(k, StackImage) = {p}
        /\ \A q \in DOMAIN trace : trace[q].op = "load" => p < q
        /\ trace[p].name # "raise" =>
              /\ p < Len(trace)
              /\ trace[p + 1] = Ev("stack_method", "main", k, StackImage, "", <<>>)

\* the per-file block that ran at position p ran on the image of a file,
\* once on that image, after the blocks that precede it in the chain
FileRunInPlace(p) ==
    LET k == trace[p].blk
        j == trace[p].img
    IN  /\ j \in InputPositions
        /\ RunsOf(k, j) = {p}
        /\ \A q \in RunPositions :
              (trace[q].img = j /\ q < p) => trace[q].blk < k
        /\ \A c \in ChainPositions("main") :
              (c < k /\ ~blocks.main[c + 1].stack) => RunsOf(c, j) # {}

\* C23: in Unit.run a block with stack = TRUE runs once, on the stack image,
\* with its stack_method called right after it on that image and before any
\* file is processed, and never on the image of a file; a block with stack =
\* FALSE runs once on the image of each file, in chain order, and never on
\* the stack image.
C23_StackBlocksApart ==
    kind = "Unit" =>
        /\ \A p \in RunPositions :
              IF blocks.main[trace[p].blk + 1].stack
              THEN StackRunInPlace(p) ELSE FileRunInPlace(p)
        /\ \A p \in DOMAIN trace :
              trace[p].op = "stack_method" =>
                  /\ p > 1
                  /\ trace[p - 1] = Ev("run", "main", trace[p].blk, StackImage, "ok", <<>>)
                  /\ blocks.main[trace[p].blk + 1].stack
        /\ st.main.pc = "done" =>
              \A c \in ChainPositions("main") :
                  IF blocks.main[c + 1].stack
                  THEN Cardinality(RunsOf(c, StackImage)) = 1
                  ELSE \A j \in InputPositions : Cardinality(RunsOf(c, j)) = 1

\* witness of C23: a Unit of a per-file block followed by a stack block has
\* processed two files; the stack block ran first
C23_Witness ==
    /\ kind = "Unit"
    /\ Len(blocks.main) = 2
    /\ ~blocks.main[1].stack
    /\ blocks.main[2].stack
    /\ Len(images.items) = 2
    /\ st.main.pc = "done"
    /\ trace[3].op = "run"
    /\ trace[3].blk = 1
    /\ trace[4].op = "stack_method"
    /\ Cardinality(RunsOf(0, 0)) = 1
    /\ Cardinality(RunsOf(0, 1)) = 1

\* ---- C24
\* C24: the computed store of the Image that copy() returns has, when the
\* copy is made, the keys and values of the computed store of the Image it
\* was made from, whether the data is copied or not.
C24_CopyKeepsComputed ==
    [][ \A s \in ImageIds, data \in BOOLEAN :
            ImageCopy(s, data) =>
                \A k \in ImageIds :
                    Copied(k) => Stores(k)'.computed = Stores(s).computed
      ]_vars

\* ---- C25
\* C25: after image.name = v or image.set(name, v), for a name that __init__
\* does not declare, the read image.name and the call image.get(name) both
\* return v, the value written last.
C25_AttributeStoreCoherent ==
    [][ \A k \in ImageIds, name \in DynamicNames, v \in Scalars :
            (ImageSet(k, name, v) \/ ImageAssign(k, name, v)) =>
                /\ GetAttr(heap', inst'[k], name) = [raised |-> "", val |-> v]
                /\ Has(Computed(heap', inst'[k]), name)
                /\ At(Computed(heap', inst'[k]), name) = v
      ]_vars

\* ---- C26
\* the input at position j had its discard flag set when run was called
PreDiscarded(j) == images.items[j + 1] = "discarded"

\* the discard records made for the image at position j: the live warnings
\* about it and its entries in the tally, as (block name, occurrence) pairs
DiscardRecords(j) ==
    {<<trace[p].name, p>> :
        p \in {q \in DOMAIN trace : trace[q].op = "warning" /\ trace[q].img = j}}
    \cup
    {<<st.main.discards[e[1]].key, e[2]>> :
        e \in {f \in (DOMAIN st.main.discards) \X (1..MaxImages) :
                 /\ f[2] \in DOMAIN st.main.discards[f[1]].val
                 /\ st.main.discards[f[1]].val[f[2]] = j}}

\* no block ran on the pre-discarded image at position j, and once its
\* traversal has ended it is counted
SkippedAndCounted(j) ==
    /\ RunsOn(j) = <<>>
    /\ TraversalEnded(j) => st.main.n_processed_images > j

\* one discard record was made for image j, naming the last block of the chain
BlamedOnLast(j) ==
    \E r \in DiscardRecords(j) :
        /\ DiscardRecords(j) = {r}
        /\ r[1] = blocks.main[Len(blocks.main)].cls

\* C26 as stated: an image that enters Sequence.run with its discard flag set
\* has no block run on it, is counted in n_processed_images, and gets exactly
\* one discard record, which names the class of the last block of the chain.
C26_PreDiscardedBlamed ==
    kind = "Sequence" =>
        \A j \in InputPositions :
            PreDiscarded(j) =>
                /\ SkippedAndCounted(j)
                /\ TraversalEnded(j) => BlamedOnLast(j)

\* C26 amended: the same, with the discard record made only when the chain
\* has at least one block; with an empty chain no record is made.
C26_PreDiscardedBlamedNonEmpty ==
    kind = "Sequence" =>
        \A j \in InputPositions :
            PreDiscarded(j) =>
                /\ SkippedAndCounted(j)
                /\ TraversalEnded(j) =>
                      IF Len(blocks.main) > 0
                      THEN BlamedOnLast(j) ELSE DiscardRecords(j) = {}

\* witness of C26: the first of two inputs came in discarded; the chain has
\* two blocks of different classes; the second input was run by both
C26_Witness ==
    /\ kind = "Sequence"
    /\ Len(images.items) = 2
    /\ PreDiscarded(0)
    /\ Len(blocks.main) = 2
    /\ blocks.main[1].cls # blocks.main[2].cls
    /\ DiscardRecords(0) # {}
    /\ RanPrefix(1, 2)
    /\ st.main.n_processed_images = 2
    /\ st.main.pc = "done"

\* ---- C27
\* a main-chain block discarded the image of input j in its worker
DiscardedInWorker(j) == \E e \in Range(wlog[j]) : IsRun(e, "worker", j) /\ e.name = "discard"

\* positions of the trace at which a data block ran on the image of input j
DataRuns(j) == {p \in DOMAIN trace : IsRun(trace[p], "data", j)}

\* C27: in MPSequence.run with data blocks an image that its worker returns
\* discarded is still handed to the data sub-sequence, and no data block runs
\* on it; a data block runs only on an image that went through the whole main
\* chain without being discarded.
C27_DiscardedResultsSkipData ==
    (kind = "MPSequence" /\ has_data /\ pool.task # <<>>) =>
        \A j \in InputPositions :
            /\ (DiscardedInWorker(j) /\ st.main.i > j)
                  => /\ Cardinality(Deliveries(j)) = 1
                     /\ DataRuns(j) = {}
            /\ DataRuns(j) # {}
                  => /\ Traversed(j)
                     /\ ~DiscardedInWorker(j)
                     /\ Len(WorkerRuns(j)) = Len(blocks.main)

\* witness of C27: the first image was discarded by the main block and went
\* through the data sub-sequence with no data block run; the data block ran
\* on the second image
C27_Witness ==
    /\ kind = "MPSequence"
    /\ has_data
    /\ Len(blocks.main) = 1
    /\ Len(blocks.data) = 1
    /\ pool.task # <<>>
    /\ Len(images.items) = 2
    /\ DiscardedInWorker(0)
    /\ Deliveries(0) # {}
    /\ DataRuns(0) = {}
    /\ DataRuns(1) # {}
    /\ st.main.pc = "done"

\* ---- C28
\* run was called with an empty collection that is not a list
EmptyTupleCall == images.shape = "tuple" /\ images.items = <<>>

\* C28: Sequence.run on an empty tuple does not raise: it calls no loader
\* and no block run, sets n_processed_images to 0, and calls terminate of
\* every block, in chain order, when terminate = TRUE (none otherwise).
C28_EmptyTupleRuns ==
    (kind = "Sequence" /\ EmptyTupleCall) =>
        /\ outcome \in {"none", "ok"}
        /\ st.main.pc \in {"loop", "report", "done"}
        /\ st.main.n_processed_images = 0
        /\ \A p \in DOMAIN trace : trace[p].op = "terminate"
        /\ st.main.pc \in {"report", "done"} =>
              IF st.main.terminate
              THEN TerminatedInOrder("main")
              ELSE trace = <<>>
        /\ st.main.pc = "done" => outcome = "ok"

\* witness of C28: a Sequence of two blocks has returned from a run on an
\* empty tuple, and both blocks were terminated
C28_Witness ==
    /\ kind = "Sequence"
    /\ EmptyTupleCall
    /\ Len(blocks.main) = 2
    /\ st.main.terminate
    /\ st.main.pc = "done"
    /\ Len(trace) = 2
    /\ st.main.n_processed_images = 0

====
